---- MODULE Spec2Model ----
(***************************************************************************)
(* Model of the EXIF-remover cloud functions: functions/main.py            *)
(* (process_image, the two storage triggers, the two scheduled sweeps) and *)
(* functions/vision.py (analyze_image).  The storage bucket is a map from  *)
(* object names to blobs, the Realtime Database is the sequence of pushed  *)
(* records plus the set of public references.                              *)
(***************************************************************************)
EXTENDS Integers, Sequences, FiniteSets, TLC

\* ------------------------------------------------------------------ bounds
MaxUploads == 1
MaxRelocations == 2
MaxAnalyses == 2
MaxSweeps == 1
MaxVanish == 1
MaxPair == 2
MaxCalls == 3
MaxRounds == 2
MaxWrites == 1

\* ------------------------------------------------------- values and names
\* Python's None / an absent metadata key.
NoVal == "<none>"
NoBlob == [absent |-> TRUE]

\* Object names are sequences of tokens, "/" being a token of its own, so
\* that substring, prefix and basename are computed and not looked up.
UploadsA == <<"uploads", "/", "a.jpg">>
PhotosA == <<"photos", "/", "a.jpg">>
ProcessedA == <<"processed", "/", "a.jpg">>

\* bucket.list_blobs() yields names in lexicographic order.
BucketOrder == <<PhotosA, ProcessedA, UploadsA>>
AllPaths == {BucketOrder[i] : i \in 1..Len(BucketOrder)}

\* Where the producer writes.
UploadPaths == {UploadsA, PhotosA}

ImageJpeg == <<"image", "/", "jpeg">>
AppPdf == <<"application", "/", "pdf">>
ContentTypes == {ImageJpeg, AppPdf}

\* Object bytes: their length, whether PIL / Vision can decode them, and
\* whether they carry an EXIF block.
EmptyBody == [size |-> 0, valid |-> FALSE, exif |-> FALSE]
GoodBody == [size |-> 4096, valid |-> TRUE, exif |-> TRUE]
CorruptBody == [size |-> 4096, valid |-> FALSE, exif |-> FALSE]
Bodies == {EmptyBody, GoodBody, CorruptBody}

MetaKeys == {"uid", "public", "tagged", "processed"}
NoMeta == [k \in MetaKeys |-> NoVal]
Uids == {NoVal, "u1"}
Publics == {NoVal, "true", "false"}

\* Reactive invocation slots of analyze_image, and the slot the
\* analyze_untagged_images sweep runs its calls in.
Workers == {"w1", "w2"}
SweepProc == "sweep"
Procs == Workers \cup {SweepProc}

VARIABLES
    store,      \* bucket: object name -> blob or NoBlob
    events,     \* object-finalized notifications generated so far
    records,    \* users/<uid>/images: the pushed records, in push order
                \* (`of` is history: the object the record was made of)
    pubrefs,    \* images/public: keys (indices into records)
    proc,       \* analyze_image invocations, one per slot
    scan,       \* scan_unprocessed_images loop
    asweep,     \* analyze_untagged_images loop
    budget,     \* what is left of the bounds
    disturbed,  \* history: some invocation overlapped another or was cut off
    pimg,       \* a relocation invocation followed step by step
    decision,   \* an artifact put to the eligibility checks, and their answers
    watch       \* the local watcher: its loop, its set of names, its history

vars == <<store, events, records, pubrefs, proc, scan, asweep, budget, disturbed,
          pimg, decision, watch>>

\* ------------------------------------------------------- string helpers
\* `needle in file_path` for needle = "<dir>/".
ContainsDir(path, dir) ==
    \E i \in 1..(Len(path) - 1) : path[i] = dir /\ path[i + 1] = "/"

\* str.startswith("<dir>/"), also the prefix filter of list_blobs.
StartsWithDir(s, dir) ==
    Len(s) >= 2 /\ s[1] = dir /\ s[2] = "/"

LastSlash(path) ==
    IF \E i \in 1..Len(path) : path[i] = "/"
    THEN CHOOSE i \in 1..Len(path) :
            path[i] = "/" /\ \A j \in (i + 1)..Len(path) : path[j] # "/"
    ELSE 0

\* os.path.basename
Basename(path) == SubSeq(path, LastSlash(path) + 1, Len(path))

\* f"processed/{file_name}"
DestinationPath(path) == <<"processed", "/">> \o Basename(path)

\* Python truthiness of an optional string.
Truthy(v) == v # NoVal /\ v # ""

\* str(is_public).lower()
StrLower(v) == IF v = NoVal THEN "none" ELSE v

Exists(st, path) == st[path] # NoBlob

\* ------------------------------------------------------------ the bucket
\* `from` is history: the name and size of the object the bytes came from.
Blob(ctype, body, meta, from) ==
    [ctype |-> ctype, body |-> body, meta |-> meta, from |-> from]

Origin(name, body) == [name |-> name, size |-> body.size]

\* The data of the object-finalized event of an object.
FinalizeEvent(name, blob) ==
    [name |-> name, ctype |-> blob.ctype, size |-> blob.body.size,
     uid |-> blob.meta["uid"], public |-> blob.meta["public"]]

\* Mutation of Decodable: Image.open accepts any file.
DecodableAnything(body) == TRUE

\* Image.open(...); img.save(..., format=img_format) without exif.
Decodable(body) == body.valid

Sanitize(body) == [size |-> body.size, valid |-> TRUE, exif |-> FALSE]

\* new_metadata of process_image: only the truthy arguments are carried.
NewMetadata(uid, public) ==
    [k \in MetaKeys |->
        IF k = "uid" /\ Truthy(uid) THEN uid
        ELSE IF k = "public" /\ Truthy(public) THEN public
        ELSE NoVal]

\* What process_image does: the download raises when the object is gone,
\* an undecodable file returns None, otherwise the upload happens.
ProcessImageResult(st, path) ==
    IF ~Exists(st, path) THEN "notfound"
    ELSE IF ~Decodable(st[path].body) THEN "undecodable"
    ELSE "uploaded"

\* destination_blob.metadata = new_metadata; upload_from_filename(...): the
\* object at the destination is replaced, bytes and metadata.
\* Mutation of UploadFromFile: a destination taken by another source is kept.
UploadFromFileUnlessTaken(st, path, body, ctype, uid, public) ==
    IF Exists(st, DestinationPath(path)) /\ st[DestinationPath(path)].from.name # path
    THEN st
    ELSE [st EXCEPT ![DestinationPath(path)] =
            Blob(ctype, Sanitize(body), NewMetadata(uid, public), Origin(path, body))]

\* Mutation of UploadFromFile: the new metadata is not attached.
UploadFromFileBare(st, path, body, ctype, uid, public) ==
    [st EXCEPT ![DestinationPath(path)] =
        Blob(ctype, Sanitize(body), NoMeta, Origin(path, body))]

UploadFromFile(st, path, body, ctype, uid, public) ==
    [st EXCEPT ![DestinationPath(path)] =
        Blob(ctype, Sanitize(body), NewMetadata(uid, public), Origin(path, body))]

UploadReplacing(st, path, ctype, uid, public) ==
    UploadFromFile(st, path, st[path].body, ctype, uid, public)

ProcessImageStore(st, path, ctype, uid, public) ==
    UploadReplacing(st, path, ctype, uid, public)

\* The notifications after process_image ran on `path`.
ProcessImageEvents(st, ev, path, ctype, uid, public) ==
    LET st2 == ProcessImageStore(st, path, ctype, uid, public)
        dest == DestinationPath(path)
    IN  ev \cup {FinalizeEvent(dest, st2[dest])}

\* ---------------------------------------------------- eligibility checks
IsImageType(ctype) == ctype # <<>> /\ StartsWithDir(ctype, "image")

\* Mutation of ShouldRelocateReactive: check 3 (own output) is missing.
ShouldRelocateReactiveAnyPath(e) ==
    /\ IsImageType(e.ctype)
    /\ e.size # 0

\* remove_exif_on_upload, checks 1-3.
ShouldRelocateReactive(e) ==
    /\ IsImageType(e.ctype)
    /\ e.size # 0
    /\ ~ContainsDir(e.name, "processed")

\* scan_unprocessed_images, checks 1-4 on a listed blob.
ShouldRelocateScan(name, blob) ==
    /\ IsImageType(blob.ctype)
    /\ blob.body.size # 0
    /\ ~ContainsDir(name, "processed")
    /\ blob.meta["processed"] # "true"

\* analyze_processed_image, check 1.
IsMonitored(path) ==
    ContainsDir(path, "processed") \/ ContainsDir(path, "photos")

\* analyze_untagged_images: list_blobs(prefix=...) and the test in the loop.
SweepPrefix == "photos"

SweepWantsAnalysis(blob) ==
    IsImageType(blob.ctype) /\ blob.meta["tagged"] # "true"

\* Mutation of ShouldAnalyze: safeguard 1 (already tagged) is missing.
ShouldAnalyzeIgnoringTag(cur) ==
    IF ~Truthy(cur["uid"]) THEN "nouid" ELSE "go"

\* analyze_image, safeguards 1 and 2.
ShouldAnalyze(cur) ==
    IF cur["tagged"] = "true" THEN "tagged"
    ELSE IF ~Truthy(cur["uid"]) THEN "nouid"
    ELSE "go"

\* ------------------------------------------------------ external services
\* vision_client.label_detection(image): the service answers with an error
\* for bytes that are no image (the empty file included); for an image it
\* answers or fails (quota, timeout).
VisionResponses(body) ==
    IF body.valid THEN {"labels", "error"} ELSE {"error"}

\* Mutation of LabelsRaise: the error of the response is not looked at.
LabelsNeverRaise(response) == FALSE

\* `if response.error.message: raise Exception(...)`
LabelsRaise(response) == response = "error"

\* model.generate_content(prompt): a category, or an exception.
GeminiOutcomes == {"category", "raise"}

\* ------------------------------------------------------------------ state
\* `obj` (content type and size of the object read), `wrote`, `refs`,
\* `patched` and `fault` are history of the invocation in the slot.
NoObject == [ctype |-> <<>>, size |-> 0]

Seen(blob) == [ctype |-> blob.ctype, size |-> blob.body.size]

IdleProc ==
    [pc |-> "idle", path |-> <<>>, cur |-> NoMeta, obj |-> NoObject, key |-> 0, wrote |-> 0, refs |-> 0, patched |-> FALSE, fault |-> "none"]

ActivePcs == {"record", "public", "patch"}

Active(p) == proc[p].pc \in ActivePcs

\* No relocation is being followed, no artifact is put to the checks.
\* `tmp`: the temporary file of the invocation exists; `bytes`: what it
\* holds; `left`: the temporary files that outlived their invocation.
IdlePimg ==
    [pc |-> "idle", name |-> <<>>, ctype |-> <<>>, uid |-> NoVal, public |-> NoVal,
     tmp |-> FALSE, bytes |-> EmptyBody, result |-> "none", left |-> 0]

NoDecision == [asked |-> FALSE]

\* The watcher is not running.  `startup`, `subm`, `at`, `failed` and
\* `uploads` are history: the images found by the initial scan, how often
\* and in which round each name was handed to the analysis, the names whose
\* analysis raised, and the producer's writes during the run.
IdleWatch ==
    [pc |-> "off", seen |-> {}, todo |-> <<>>, cur |-> <<>>, round |-> 0,
     startup |-> {}, subm |-> <<>>, at |-> <<>>, failed |-> {}, uploads |-> 0]

ScanBusy == scan.pc = "run"

ASweepBusy == asweep.pc \in {"run", "wait"}

\* What the producer uploads: the reference artifact (a decodable JPEG of a
\* known owner, marked public) and every artifact that differs from it in
\* one attribute.
Reference == [ctype |-> ImageJpeg, body |-> GoodBody, uid |-> "u1", public |-> "true"]

Differences(a, b) ==
    Cardinality({f \in {"ctype", "body", "uid", "public"} : a[f] # b[f]})

Artifacts ==
    {a \in [ctype : ContentTypes, body : Bodies, uid : Uids, public : Publics] :
        Differences(a, Reference) <= 1}

Produced(n, a) ==
    Blob(a.ctype, a.body, NewMetadata(a.uid, a.public), Origin(n, a.body))

\* The buckets the producer can have left behind: at most MaxUploads objects,
\* all under the upload paths.
InitialStores ==
    {st \in [AllPaths -> {Produced(n, a) : n \in UploadPaths, a \in Artifacts}
                            \cup {NoBlob}] :
        /\ \A n \in AllPaths : st[n] # NoBlob => st[n].from.name = n
        /\ Cardinality({n \in UploadPaths : st[n] # NoBlob}) <= MaxUploads}

\* The producer has written its objects and the bucket has emitted their
\* notifications; no function has run yet.
Init ==
    /\ store \in InitialStores
    /\ events = {FinalizeEvent(n, store[n]) : n \in {m \in AllPaths : store[m] # NoBlob}}
    /\ records = <<>>
    /\ pubrefs = {}
    /\ proc = [p \in Procs |-> IdleProc]
    /\ scan = [pc |-> "idle", todo |-> <<>>]
    /\ asweep = [pc |-> "idle", todo |-> <<>>]
    /\ budget = [relocations |-> MaxRelocations, analyses |-> MaxAnalyses,
                 sweeps |-> MaxSweeps, vanish |-> MaxVanish, periodic |-> FALSE]
    /\ disturbed = FALSE
    /\ pimg = IdlePimg
    /\ watch = IdleWatch
    /\ decision = NoDecision

\* ------------------------------------------------------------ environment
\* An object is deleted from outside.
Vanish(name) ==
    /\ budget.vanish > 0
    /\ Exists(store, name)
    /\ store' = [store EXCEPT ![name] = NoBlob]
    /\ budget' = [budget EXCEPT !.vanish = @ - 1]
    /\ UNCHANGED <<watch, pimg, decision, events, records, pubrefs, proc, scan, asweep, disturbed>>

\* ---------------------------------------------------------- main.py:112
\* remove_exif_on_upload on a (re)delivered notification.
RemoveExifOnUpload(e) ==
    /\ e \in events
    /\ budget.relocations > 0
    /\ budget' = [budget EXCEPT !.relocations = @ - 1]
    /\ disturbed' = (disturbed \/ ScanBusy \/ ASweepBusy \/ \E p \in Procs : Active(p))
    /\ IF ShouldRelocateReactive(e)
          /\ ProcessImageResult(store, e.name) = "uploaded"
       THEN /\ store' = ProcessImageStore(store, e.name, e.ctype, e.uid, e.public)
            /\ events' = ProcessImageEvents(store, events, e.name, e.ctype,
                                            e.uid, e.public)
       ELSE UNCHANGED <<store, events>>
    /\ UNCHANGED <<watch, pimg, decision, records, pubrefs, proc, scan, asweep>>

\* ---------------------------------------------------------- vision.py:13
\* Mutation of Sequel: the flags are patched before the record is written.
SequelFlagFirst(pc, cur) ==
    CASE pc = "begin" -> "patch"
      [] pc = "patch" -> "record"
      [] pc = "record" -> IF Truthy(cur["public"]) THEN "public" ELSE "done"
      [] pc = "public" -> "done"

\* Mutation of Sequel: the record is not written.
SequelWithoutRecord(pc, cur) ==
    CASE pc = "begin" -> "patch"
      [] pc = "record" -> "patch"
      [] pc = "public" -> "patch"
      [] pc = "patch" -> "done"

\* The order of the steps of analyze_image once the safeguards passed.
Sequel(pc, cur) ==
    CASE pc = "begin" -> "record"
      [] pc = "record" -> IF Truthy(cur["public"]) THEN "public" ELSE "patch"
      [] pc = "public" -> "patch"
      [] pc = "patch" -> "done"

\* Mutation of AnalyzeImageBegin: a failing service is noted and the
\* invocation carries on with the database write.
AnalyzeImageBeginCarryingOn(p, path, v, g) ==
    proc' = [proc EXCEPT ![p] =
        IF ~Exists(store, path)
        THEN [IdleProc EXCEPT !.pc = "done", !.path = path, !.fault = "notfound"]
        ELSE LET cur == store[path].meta
             IN  IF ShouldAnalyze(cur) # "go"
                 THEN [IdleProc EXCEPT !.pc = "done", !.path = path, !.cur = cur]
                 ELSE [IdleProc EXCEPT !.pc = Sequel("begin", cur), !.path = path,
                                       !.cur = cur, !.obj = Seen(store[path]),
                                       !.fault = IF LabelsRaise(v) \/ g = "raise"
                                                 THEN "service" ELSE "none"]]

\* analyze_image up to the database write: reload, safeguards, download,
\* label_detection, generate_content.  `v` and `g` are the answers of the
\* two services; an exception of theirs ends the invocation in the except
\* clause, a missing object raises out of analyze_image.
AnalyzeImageBegin(p, path, v, g) ==
    proc' = [proc EXCEPT ![p] =
        IF ~Exists(store, path)
        THEN [IdleProc EXCEPT !.pc = "done", !.path = path, !.fault = "notfound"]
        ELSE LET cur == store[path].meta
             IN  IF ShouldAnalyze(cur) # "go"
                 THEN [IdleProc EXCEPT !.pc = "done", !.path = path, !.cur = cur]
                 ELSE IF LabelsRaise(v) \/ g = "raise"
                 THEN [IdleProc EXCEPT !.pc = "done", !.path = path, !.cur = cur,
                                       !.fault = "service"]
                 ELSE [IdleProc EXCEPT !.pc = Sequel("begin", cur), !.path = path,
                                       !.cur = cur, !.obj = Seen(store[path])]]

\* The answers the services can give for the object at `path`.
ServiceAnswers(path) ==
    IF Exists(store, path)
    THEN VisionResponses(store[path].body) \X GeminiOutcomes
    ELSE {<<"error", "raise">>}

\* db.reference(user_db_path).push(); user_image_ref.set(image_data)
AnalyzeRecord(p) ==
    /\ proc[p].pc = "record"
    /\ records' = Append(records,
          [filePath |-> proc[p].path, uid |-> proc[p].cur["uid"],
           public |-> proc[p].cur["public"], of |-> proc[p].obj])
    /\ proc' = [proc EXCEPT ![p] =
          [@ EXCEPT !.pc = Sequel("record", proc[p].cur), !.key = Len(records) + 1,
                    !.wrote = @ + 1]]
    /\ UNCHANGED <<watch, pimg, decision, store, events, pubrefs, scan, asweep, budget, disturbed>>

\* if is_public: db.reference('images/public').child(key).set(...)
AnalyzePublic(p) ==
    /\ proc[p].pc = "public"
    /\ pubrefs' = pubrefs \cup {proc[p].key}
    /\ proc' = [proc EXCEPT ![p] =
          [@ EXCEPT !.pc = Sequel("public", proc[p].cur), !.refs = @ + 1]]
    /\ UNCHANGED <<watch, pimg, decision, store, events, records, scan, asweep, budget, disturbed>>

\* current_metadata[...] = ...; blob.metadata = current_metadata
PatchedMetadata(cur) ==
    [cur EXCEPT !["tagged"] = "true", !["processed"] = "true",
                !["uid"] = cur["uid"], !["public"] = StrLower(cur["public"])]

\* blob.patch(): the keys sent are merged into the object's metadata.
MergeMetadata(old, sent) ==
    [k \in MetaKeys |-> IF sent[k] # NoVal THEN sent[k] ELSE old[k]]

\* blob.patch(); "No such object" is caught and skipped.
AnalyzePatch(p) ==
    /\ proc[p].pc = "patch"
    /\ LET n == proc[p].path
       IN  IF Exists(store, n)
           THEN /\ store' = [store EXCEPT ![n].meta =
                        MergeMetadata(@, PatchedMetadata(proc[p].cur))]
                /\ proc' = [proc EXCEPT ![p] =
                      [@ EXCEPT !.pc = Sequel("patch", proc[p].cur), !.patched = TRUE]]
           ELSE /\ store' = store
                /\ proc' = [proc EXCEPT ![p] =
                      [@ EXCEPT !.pc = Sequel("patch", proc[p].cur)]]
    /\ UNCHANGED <<watch, pimg, decision, events, records, pubrefs, scan, asweep, budget, disturbed>>

\* The invocation is cut off (timeout_sec, instance crash) where it stands.
Crash(p) ==
    /\ Active(p)
    /\ proc' = [proc EXCEPT ![p] = [@ EXCEPT !.pc = "done", !.fault = "crash"]]
    /\ disturbed' = TRUE
    /\ UNCHANGED <<watch, pimg, decision, store, events, records, pubrefs, scan, asweep, budget>>

\* ----------------------------------------------------------- main.py:90
FreeWorker ==
    IF ~Active("w1") THEN "w1" ELSE "w2"

\* analyze_processed_image on a (re)delivered notification.
AnalyzeProcessedImage(e) ==
    /\ e \in events
    /\ budget.analyses > 0
    /\ ~Active(FreeWorker)
    /\ budget' = [budget EXCEPT !.analyses = @ - 1]
    /\ disturbed' = (disturbed \/ ScanBusy \/ ASweepBusy \/ \E p \in Procs : Active(p))
    /\ IF IsMonitored(e.name)
       THEN \E a \in ServiceAnswers(e.name) :
               AnalyzeImageBegin(FreeWorker, e.name, a[1], a[2])
       ELSE proc' = proc
    /\ UNCHANGED <<watch, pimg, decision, store, events, records, pubrefs, scan, asweep>>

\* ---------------------------------------------------------- main.py:157
\* bucket.list_blobs(): the objects present, each with the content type,
\* size and metadata it has when listed.
ListBlobs(st) ==
    LET Present(n) == Exists(st, n)
        names == SelectSeq(BucketOrder, Present)
    IN  [i \in 1..Len(names) |-> [name |-> names[i], blob |-> st[names[i]]]]

\* bucket.list_blobs(prefix='<dir>/')
ListPrefix(st, dir) ==
    LET Wanted(n) == Exists(st, n) /\ StartsWithDir(n, dir)
    IN  SelectSeq(BucketOrder, Wanted)

\* The loop moves on to the next listed blob, or ends.
Advance(loop) ==
    [pc |-> IF Len(loop.todo) <= 1 THEN "finished" ELSE "run",
     todo |-> Tail(loop.todo)]

\* An exception leaves the loop: the function ends with the rest unvisited.
Propagate(loop) == [loop EXCEPT !.pc = "aborted"]

\* scan_unprocessed_images starts: the listing.
ScanStart ==
    /\ scan.pc \in {"idle", "finished", "aborted"}
    /\ budget.periodic \/ budget.sweeps > 0
    /\ budget' = [budget EXCEPT !.sweeps = IF budget.periodic THEN @ ELSE @ - 1]
    /\ disturbed' = (disturbed \/ ASweepBusy \/ \E p \in Procs : Active(p))
    /\ LET l == ListBlobs(store)
       IN  scan' = [pc |-> IF l = <<>> THEN "finished" ELSE "run", todo |-> l]
    /\ UNCHANGED <<watch, pimg, decision, store, events, records, pubrefs, proc, asweep>>

\* One pass of the loop of scan_unprocessed_images.
ScanStep ==
    /\ scan.pc = "run"
    /\ LET b == Head(scan.todo)
           uid == b.blob.meta["uid"]
           public == b.blob.meta["public"]
       IN  IF ShouldRelocateScan(b.name, b.blob)
           THEN CASE ProcessImageResult(store, b.name) = "notfound" ->
                      /\ scan' = Propagate(scan)
                      /\ UNCHANGED <<store, events>>
                  [] ProcessImageResult(store, b.name) = "undecodable" ->
                      /\ scan' = Advance(scan)
                      /\ UNCHANGED <<store, events>>
                  [] ProcessImageResult(store, b.name) = "uploaded" ->
                      /\ scan' = Advance(scan)
                      /\ store' = ProcessImageStore(store, b.name, b.blob.ctype,
                                                    uid, public)
                      /\ events' = ProcessImageEvents(store, events, b.name,
                                                      b.blob.ctype, uid, public)
           ELSE /\ scan' = Advance(scan)
                /\ UNCHANGED <<store, events>>
    /\ UNCHANGED <<watch, pimg, decision, records, pubrefs, proc, asweep, budget, disturbed>>

\* ---------------------------------------------------------- main.py:198
\* analyze_untagged_images starts: the listing under the prefix.
ASweepStart ==
    /\ asweep.pc \in {"idle", "finished", "aborted", "killed"}
    /\ budget.periodic \/ budget.sweeps > 0
    /\ budget' = [budget EXCEPT !.sweeps = IF budget.periodic THEN @ ELSE @ - 1]
    /\ disturbed' = (disturbed \/ ScanBusy \/ \E p \in Procs : Active(p))
    /\ LET l == ListPrefix(store, SweepPrefix)
       IN  asweep' = [pc |-> IF l = <<>> THEN "finished" ELSE "run", todo |-> l]
    /\ UNCHANGED <<watch, pimg, decision, store, events, records, pubrefs, proc, scan>>

\* blob.reload(), the test of the loop body and the call of analyze_image
\* up to its database write.
ASweepNext ==
    /\ asweep.pc = "run"
    /\ LET n == Head(asweep.todo)
       IN  IF ~Exists(store, n)
           THEN asweep' = Propagate(asweep) /\ proc' = proc
           ELSE IF SweepWantsAnalysis(store[n])
           THEN /\ asweep' = [asweep EXCEPT !.pc = "wait"]
                /\ \E a \in ServiceAnswers(n) :
                      AnalyzeImageBegin(SweepProc, n, a[1], a[2])
           ELSE asweep' = Advance(asweep) /\ proc' = proc
    /\ UNCHANGED <<watch, pimg, decision, store, events, records, pubrefs, scan, budget, disturbed>>

\* analyze_image returned, or raised out of the loop (its reload and its
\* download are outside its try block), or the function was cut off.
ASweepReturn ==
    /\ asweep.pc = "wait"
    /\ proc[SweepProc].pc = "done"
    /\ asweep' = CASE proc[SweepProc].fault = "notfound" -> Propagate(asweep)
                    [] proc[SweepProc].fault = "crash" -> [asweep EXCEPT !.pc = "killed"]
                    [] OTHER -> Advance(asweep)
    /\ UNCHANGED <<watch, pimg, decision, store, events, records, pubrefs, proc, scan, budget, disturbed>>

\* ------------------------------------------------------------------- next
Next ==
    \/ \E n \in AllPaths : Vanish(n)
    \/ \E e \in events : RemoveExifOnUpload(e)
    \/ \E e \in events : AnalyzeProcessedImage(e)
    \/ \E p \in Procs : AnalyzeRecord(p)
    \/ \E p \in Procs : AnalyzePublic(p)
    \/ \E p \in Procs : AnalyzePatch(p)
    \/ \E p \in Procs : Crash(p)
    \/ ScanStart
    \/ ScanStep
    \/ ASweepStart
    \/ ASweepNext
    \/ ASweepReturn

Spec == Init /\ [][Next]_vars

\* -------------------------------------------- the sweeps on their own
\* Every notification was dropped: only the two schedules run, for ever,
\* nothing is deleted and no invocation is cut off.
SweepInit ==
    /\ store \in InitialStores
    /\ events = {FinalizeEvent(n, store[n]) : n \in {m \in AllPaths : store[m] # NoBlob}}
    /\ records = <<>>
    /\ pubrefs = {}
    /\ proc = [p \in Procs |-> IdleProc]
    /\ scan = [pc |-> "idle", todo |-> <<>>]
    /\ asweep = [pc |-> "idle", todo |-> <<>>]
    /\ budget = [relocations |-> 0, analyses |-> 0, sweeps |-> 0, vanish |-> 0,
                 periodic |-> TRUE]
    /\ disturbed = FALSE
    /\ pimg = IdlePimg
    /\ watch = IdleWatch
    /\ decision = NoDecision

SweepNext ==
    \/ ScanStart
    \/ ScanStep
    \/ ASweepStart
    \/ ASweepNext
    \/ ASweepReturn
    \/ AnalyzeRecord(SweepProc)
    \/ AnalyzePublic(SweepProc)
    \/ AnalyzePatch(SweepProc)

\* The services answer: a pass of the analysis sweep that calls them gets
\* labels and a category.
ASweepNextAnswered == ASweepNext /\ proc'[SweepProc].pc = Sequel("begin", NoMeta)

\* Both schedules keep firing, every started function runs on, and the
\* services answer again and again.
SweepSpec ==
    /\ SweepInit
    /\ [][SweepNext]_vars
    /\ WF_vars(ScanStart) /\ WF_vars(ScanStep)
    /\ WF_vars(ASweepStart) /\ WF_vars(ASweepNext) /\ WF_vars(ASweepReturn)
    /\ SF_vars(ASweepNextAnswered)
    /\ WF_vars(AnalyzeRecord(SweepProc))
    /\ WF_vars(AnalyzePublic(SweepProc))
    /\ WF_vars(AnalyzePatch(SweepProc))

\* ------------------------------------- the relocation, step by step
\* The buckets the producer can have left behind: at most MaxPair objects
\* under the upload paths.
RelocStores ==
    {st \in [AllPaths -> {Produced(n, a) : n \in UploadPaths, a \in Artifacts}
                            \cup {NoBlob}] :
        /\ \A n \in AllPaths : st[n] # NoBlob => st[n].from.name = n
        /\ Cardinality({n \in UploadPaths : st[n] # NoBlob}) <= MaxPair}

\* Only the relocation functions run, one invocation at a time, at most
\* MaxCalls of them.
RelocInit ==
    /\ store \in RelocStores
    /\ events = {FinalizeEvent(n, store[n]) : n \in {m \in AllPaths : store[m] # NoBlob}}
    /\ records = <<>>
    /\ pubrefs = {}
    /\ proc = [p \in Procs |-> IdleProc]
    /\ scan = [pc |-> "idle", todo |-> <<>>]
    /\ asweep = [pc |-> "idle", todo |-> <<>>]
    /\ budget = [relocations |-> MaxCalls, analyses |-> 0, sweeps |-> 0,
                 vanish |-> MaxVanish, periodic |-> FALSE]
    /\ disturbed = FALSE
    /\ pimg = IdlePimg
    /\ watch = IdleWatch
    /\ decision = NoDecision

PimgFree == pimg.pc \in {"idle", "done"}

\* The invocation ends before process_image is called.
PimgSkipped(name, ctype, uid, public) ==
    [pimg EXCEPT !.pc = "done", !.name = name, !.ctype = ctype, !.uid = uid,
                 !.public = public, !.tmp = FALSE, !.bytes = EmptyBody,
                 !.result = "skipped"]

\* process_image is entered: tempfile.mkstemp() has made the file.
PimgEntered(name, ctype, uid, public) ==
    [pimg EXCEPT !.pc = "download", !.name = name, !.ctype = ctype, !.uid = uid,
                 !.public = public, !.tmp = TRUE, !.bytes = EmptyBody,
                 !.result = "none"]

\* remove_exif_on_upload up to the call of process_image.
PiTrigger(e) ==
    /\ e \in events
    /\ PimgFree
    /\ budget.relocations > 0
    /\ budget' = [budget EXCEPT !.relocations = @ - 1]
    /\ pimg' = IF ShouldRelocateReactive(e)
               THEN PimgEntered(e.name, e.ctype, e.uid, e.public)
               ELSE PimgSkipped(e.name, e.ctype, e.uid, e.public)
    /\ UNCHANGED <<store, events, records, pubrefs, proc, scan, asweep, disturbed,
                   decision, watch>>

\* The loop body of scan_unprocessed_images on the listed blob `n`, up to
\* the call of process_image.
PiFromScan(n) ==
    /\ Exists(store, n)
    /\ PimgFree
    /\ budget.relocations > 0
    /\ budget' = [budget EXCEPT !.relocations = @ - 1]
    /\ LET b == store[n]
       IN  pimg' = IF ShouldRelocateScan(n, b)
                   THEN PimgEntered(n, b.ctype, b.meta["uid"], b.meta["public"])
                   ELSE PimgSkipped(n, b.ctype, b.meta["uid"], b.meta["public"])
    /\ UNCHANGED <<store, events, records, pubrefs, proc, scan, asweep, disturbed,
                   decision, watch>>

\* source_blob.download_to_filename(temp_local_path): raises when the
\* object is gone, and the finally block is next.
PiDownload ==
    /\ pimg.pc = "download"
    /\ pimg' = IF Exists(store, pimg.name)
               THEN [pimg EXCEPT !.pc = "decode", !.bytes = store[pimg.name].body]
               ELSE [pimg EXCEPT !.pc = "cleanup", !.result = "notfound"]
    /\ UNCHANGED <<store, events, records, pubrefs, proc, scan, asweep, budget,
                   disturbed, decision, watch>>

\* Image.open / img.save: UnidentifiedImageError returns None through the
\* finally block.
PiDecode ==
    /\ pimg.pc = "decode"
    /\ pimg' = IF Decodable(pimg.bytes)
               THEN [pimg EXCEPT !.pc = "upload"]
               ELSE [pimg EXCEPT !.pc = "cleanup", !.result = "undecodable"]
    /\ UNCHANGED <<store, events, records, pubrefs, proc, scan, asweep, budget,
                   disturbed, decision, watch>>

\* destination_blob.upload_from_filename(...): it replaces the object at
\* the destination, or it raises and nothing is written.
PiUpload ==
    /\ pimg.pc = "upload"
    /\ \/ /\ store' = UploadFromFile(store, pimg.name, pimg.bytes, pimg.ctype,
                                      pimg.uid, pimg.public)
          /\ events' = events \cup
                {FinalizeEvent(DestinationPath(pimg.name),
                               store'[DestinationPath(pimg.name)])}
          /\ pimg' = [pimg EXCEPT !.pc = "cleanup", !.result = "uploaded"]
       \/ /\ pimg' = [pimg EXCEPT !.pc = "cleanup", !.result = "uploadfailed"]
          /\ UNCHANGED <<store, events>>
    /\ UNCHANGED <<records, pubrefs, proc, scan, asweep, budget, disturbed, decision, watch>>

\* The finally block: os.remove(temp_local_path), whose PermissionError is
\* caught and only printed.
PiCleanup ==
    /\ pimg.pc = "cleanup"
    /\ \/ pimg' = [pimg EXCEPT !.pc = "done", !.tmp = FALSE]
       \/ pimg' = [pimg EXCEPT !.pc = "done", !.left = @ + 1]
    /\ UNCHANGED <<store, events, records, pubrefs, proc, scan, asweep, budget,
                   disturbed, decision, watch>>

RelocNext ==
    \/ \E e \in events : PiTrigger(e)
    \/ \E n \in AllPaths : PiFromScan(n)
    \/ PiDownload
    \/ PiDecode
    \/ PiUpload
    \/ PiCleanup
    \/ \E n \in AllPaths : Vanish(n)

RelocSpec == RelocInit /\ [][RelocNext]_vars

\* ------------------------------------- the eligibility checks alone
\* "unprocessed/a.jpg": outside processed/, with the text 'processed/' in it.
UnprocessedA == <<"un", "processed", "/", "a.jpg">>

DecisionPaths == AllPaths \cup {UnprocessedA}

\* A content type, or None.
DecisionTypes == ContentTypes \cup {<<>>}

DecisionSizes == {EmptyBody.size, GoodBody.size}

DecisionMetas ==
    {m \in [MetaKeys -> {NoVal, "true", "u1"}] :
        /\ m["uid"] \in Uids
        /\ m["public"] = "true"
        /\ m["tagged"] \in {NoVal, "true"}
        /\ m["processed"] \in {NoVal, "true"}}

\* The artifact as the notification describes it, and as a listing does.
AsEvent(d) ==
    [name |-> d.name, ctype |-> d.ctype, size |-> d.size,
     uid |-> d.meta["uid"], public |-> d.meta["public"]]

AsBlob(d) ==
    Blob(d.ctype, [size |-> d.size, valid |-> d.size # 0, exif |-> FALSE], d.meta,
         [name |-> d.name, size |-> d.size])

\* Whether each of the four functions goes on to its stage for the artifact:
\* the relocation functions call process_image, the analysis functions call
\* analyze_image and its safeguards pass.
Answers(d) ==
    [reactive |-> ShouldRelocateReactive(AsEvent(d)),
     scan     |-> ShouldRelocateScan(d.name, AsBlob(d)),
     trigger  |-> IsMonitored(d.name) /\ ShouldAnalyze(d.meta) = "go",
     sweep    |-> /\ StartsWithDir(d.name, SweepPrefix)
                  /\ SweepWantsAnalysis(AsBlob(d))
                  /\ ShouldAnalyze(d.meta) = "go"]

NoAnswers == [reactive |-> FALSE, scan |-> FALSE, trigger |-> FALSE, sweep |-> FALSE]

\* Any artifact state is put to the checks.
EligInit ==
    /\ decision \in [asked : {FALSE}, name : DecisionPaths, ctype : DecisionTypes,
                     size : DecisionSizes, meta : DecisionMetas, ans : {NoAnswers}]
    /\ store = [n \in AllPaths |-> NoBlob]
    /\ events = {}
    /\ records = <<>>
    /\ pubrefs = {}
    /\ proc = [p \in Procs |-> IdleProc]
    /\ scan = [pc |-> "idle", todo |-> <<>>]
    /\ asweep = [pc |-> "idle", todo |-> <<>>]
    /\ budget = [relocations |-> 0, analyses |-> 0, sweeps |-> 0, vanish |-> 0,
                 periodic |-> FALSE]
    /\ disturbed = FALSE
    /\ pimg = IdlePimg
    /\ watch = IdleWatch

Decide ==
    /\ ~decision.asked
    /\ decision' = [decision EXCEPT !.asked = TRUE, !.ans = Answers(decision)]
    /\ UNCHANGED <<store, events, records, pubrefs, proc, scan, asweep, budget,
                   disturbed, pimg, watch>>

EligNext == Decide

EligSpec == EligInit /\ [][EligNext]_vars

\* ------------------------------------------- local_storage_watcher.py:20
ProcessedB == <<"processed", "/", "b.jpg">>

\* The bucket the watcher runs against, in the order of a listing.
WatchOrder == <<PhotosA, ProcessedA, ProcessedB>>

WatchPaths == {WatchOrder[i] : i \in 1..Len(WatchOrder)}

\* watch_prefix="processed/"
WatchPrefix == "processed"

\* What a producer puts there: an image, a document, an object of no
\* content type.
WatchArtifacts ==
    [ctype : DecisionTypes, body : {GoodBody}, uid : {"u1"}, public : {"true"}]

\* bucket.list_blobs(prefix=watch_prefix): name and content type as listed.
WatchListing(st) ==
    LET Wanted(n) == Exists(st, n) /\ StartsWithDir(n, WatchPrefix)
        names == SelectSeq(WatchOrder, Wanted)
    IN  [i \in 1..Len(names) |-> [name |-> names[i], ctype |-> st[names[i]].ctype]]

\* The initial scan: the names of the listed images.
ExistingImages(st) ==
    {WatchListing(st)[i].name :
        i \in {j \in 1..Len(WatchListing(st)) : IsImageType(WatchListing(st)[j].ctype)}}

\* Mutation of MarkProcessed: the name is not put into the set.
MarkProcessedNever(seen, name) == seen

\* processed_files.add(blob.name)
MarkProcessed(seen, name) == seen \cup {name}

\* The arguments the watcher passes to process_image_without_metadata_check,
\* and the parameters the function requires.
PassedArguments == {"bucket_name", "file_path"}

RequiredArguments == {"bucket_name", "file_path", "gemini_api_key"}

\* The call raises TypeError when a required argument is missing; otherwise
\* the download can raise, and the rest is caught inside the function.
CallOutcomes ==
    IF RequiredArguments \subseteq PassedArguments
    THEN {"returned", "raised"}
    ELSE {"raised"}

WatchInit ==
    /\ store \in [WatchPaths -> {Produced(n, a) : n \in WatchPaths, a \in WatchArtifacts}
                                  \cup {NoBlob}]
    /\ \A n \in WatchPaths : store[n] # NoBlob => store[n].from.name = n
    /\ events = {FinalizeEvent(n, store[n]) : n \in {m \in WatchPaths : store[m] # NoBlob}}
    /\ records = <<>>
    /\ pubrefs = {}
    /\ proc = [p \in Procs |-> IdleProc]
    /\ scan = [pc |-> "idle", todo |-> <<>>]
    /\ asweep = [pc |-> "idle", todo |-> <<>>]
    /\ budget = [relocations |-> 0, analyses |-> 0, sweeps |-> 0,
                 vanish |-> MaxVanish, periodic |-> FALSE]
    /\ disturbed = FALSE
    /\ pimg = IdlePimg
    /\ decision = NoDecision
    /\ watch = [IdleWatch EXCEPT !.subm = [n \in WatchPaths |-> 0],
                                 !.at = [n \in WatchPaths |-> 0]]

WatchRunning == watch.pc \in {"list", "loop", "call", "sleep"}

\* A producer writes an object while the watcher runs.
WatchUpload(n, a) ==
    /\ WatchRunning
    /\ watch.uploads < MaxWrites
    /\ store' = [store EXCEPT ![n] = Produced(n, a)]
    /\ events' = events \cup {FinalizeEvent(n, store'[n])}
    /\ watch' = [watch EXCEPT !.uploads = @ + 1]
    /\ UNCHANGED <<records, pubrefs, proc, scan, asweep, budget, disturbed, pimg,
                   decision>>

\* watch_storage_uploads starts: the initial scan marks the images found.
WatchStartup ==
    /\ watch.pc = "off"
    /\ watch' = [watch EXCEPT !.pc = "list", !.seen = ExistingImages(store),
                              !.startup = ExistingImages(store)]
    /\ UNCHANGED <<store, events, records, pubrefs, proc, scan, asweep, budget,
                   disturbed, pimg, decision>>

\* A polling round begins: blobs = bucket.list_blobs(prefix=watch_prefix)
WatchList ==
    /\ watch.pc = "list"
    /\ watch.round < MaxRounds
    /\ LET l == WatchListing(store)
       IN  watch' = [watch EXCEPT !.pc = IF l = <<>> THEN "sleep" ELSE "loop",
                                  !.todo = l, !.round = @ + 1]
    /\ UNCHANGED <<store, events, records, pubrefs, proc, scan, asweep, budget,
                   disturbed, pimg, decision>>

\* The loop is done with the blob at the head of the listing.
WatchAdvance(w) ==
    [w EXCEPT !.pc = IF Len(w.todo) <= 1 THEN "sleep" ELSE "loop",
              !.todo = Tail(w.todo), !.cur = <<>>]

\* One pass of the loop up to the call: the two tests, and the name is
\* marked before the analysis runs.
WatchStep ==
    /\ watch.pc = "loop"
    /\ LET b == Head(watch.todo)
       IN  watch' = IF IsImageType(b.ctype) /\ b.name \notin watch.seen
                    THEN [watch EXCEPT !.pc = "call", !.cur = b.name,
                                       !.seen = MarkProcessed(@, b.name),
                                       !.subm[b.name] = @ + 1,
                                       !.at[b.name] = watch.round]
                    ELSE WatchAdvance(watch)
    /\ UNCHANGED <<store, events, records, pubrefs, proc, scan, asweep, budget,
                   disturbed, pimg, decision>>

\* process_image_without_metadata_check(bucket_name, blob.name) inside
\* try / except Exception: an exception is printed and the loop goes on.
WatchCall ==
    /\ watch.pc = "call"
    /\ \E o \in CallOutcomes :
          watch' = [WatchAdvance(watch) EXCEPT
                        !.failed = IF o = "raised" THEN @ \cup {watch.cur} ELSE @]
    /\ UNCHANGED <<store, events, records, pubrefs, proc, scan, asweep, budget,
                   disturbed, pimg, decision>>

\* time.sleep(check_interval), then the next round.
WatchSleep ==
    /\ watch.pc = "sleep"
    /\ watch' = [watch EXCEPT !.pc = "list"]
    /\ UNCHANGED <<store, events, records, pubrefs, proc, scan, asweep, budget,
                   disturbed, pimg, decision>>

\* KeyboardInterrupt ends the run.
WatchInterrupt ==
    /\ WatchRunning
    /\ watch' = [watch EXCEPT !.pc = "stopped"]
    /\ UNCHANGED <<store, events, records, pubrefs, proc, scan, asweep, budget,
                   disturbed, pimg, decision>>

WatchNext ==
    \/ WatchStartup
    \/ WatchList
    \/ WatchStep
    \/ WatchCall
    \/ WatchSleep
    \/ WatchInterrupt
    \/ \E n \in WatchPaths, a \in WatchArtifacts : WatchUpload(n, a)
    \/ \E n \in WatchPaths : Vanish(n)

WatchSpec == WatchInit /\ [][WatchNext]_vars

\* ================================================================ claims
RecordsOf(n) == {i \in 1..Len(records) : records[i].filePath = n}

Flagged(blob) == blob.meta["tagged"] = "true" /\ blob.meta["processed"] = "true"

Completed(p) == proc[p].pc = "done" /\ proc[p].fault = "none"

Passed(p) == ShouldAnalyze(proc[p].cur) = "go"

\* `n` is an inbox object whose sanitized copy sits at the processed path.
Relocated(n) ==
    /\ ~ContainsDir(n, "processed")
    /\ Exists(store, DestinationPath(n))
    /\ store[DestinationPath(n)].from.name = n

\* C1: an analyze_image invocation that finds tagged = 'true' on reload
\* writes no record, no public reference and no metadata, and is over.
C1_TaggedIsSkipped ==
    \A p \in Procs :
        proc[p].cur["tagged"] = "true" =>
            /\ proc[p].pc = "done"
            /\ proc[p].wrote = 0
            /\ proc[p].refs = 0
            /\ ~proc[p].patched

\* An invocation ran on an object that an earlier one had tagged.
C1_Witness ==
    \E p \in Procs :
        /\ proc[p].pc = "done"
        /\ proc[p].cur["tagged"] = "true"
        /\ RecordsOf(proc[p].path) # {}

\* C2: a relocation invocation (reactive or scan) on an inbox object that
\* was relocated before changes nothing in the bucket.
C2_RelocationIsNoOp ==
    [][((\E e \in events : RemoveExifOnUpload(e) /\ Relocated(e.name))
        \/ (ScanStep /\ Relocated(Head(scan.todo).name)))
       => store' = store]_vars

\* C3: two completed analyze_image invocations on the same object with an
\* owner, at least one of which found it untagged, wrote one or two
\* records between them.
C3_DuplicateBounds ==
    \A p, q \in Procs :
        (/\ p # q
         /\ Completed(p) /\ Completed(q)
         /\ proc[p].path = proc[q].path
         /\ Truthy(proc[p].cur["uid"]) /\ Truthy(proc[q].cur["uid"])
         /\ Passed(p) \/ Passed(q))
        => proc[p].wrote + proc[q].wrote \in 1..2

\* Both invocations passed the safeguard before either set the flag: with
\* no relocation and no sweep in the run, two records of one object.
C3_Witness ==
    \E p, q \in Procs :
        /\ p # q
        /\ Completed(p) /\ Completed(q)
        /\ proc[p].path = proc[q].path
        /\ proc[p].wrote = 1 /\ proc[q].wrote = 1
        /\ budget.relocations = MaxRelocations
        /\ budget.sweeps = MaxSweeps
        /\ Cardinality(RecordsOf(proc[p].path)) = 2

\* C4: as long as no invocation overlapped another or was cut off, no
\* object name has more than one record.
C4_OneRecordPerArtifact ==
    ~disturbed => \A n \in AllPaths : Cardinality(RecordsOf(n)) <= 1

\* C5: an object carrying tagged = 'true' has a record.
C5_FlagImpliesRecord ==
    \A n \in AllPaths :
        (Exists(store, n) /\ store[n].meta["tagged"] = "true") => RecordsOf(n) # {}

\* An object is tagged in a run in which an invocation was cut off after
\* its record was written.
C5_Witness ==
    /\ \E n \in AllPaths : Exists(store, n) /\ store[n].meta["tagged"] = "true"
    /\ \E p \in Procs : proc[p].fault = "crash" /\ proc[p].wrote = 1

\* C6: an object that carries both flags keeps them for as long as it exists.
C6_AnalyzedIsTerminal ==
    [][\A n \in AllPaths :
          (Exists(store, n) /\ Flagged(store[n]) /\ Exists(store', n))
          => Flagged(store'[n])]_vars

\* C8: when an exception ended a sweep, no listed object after the failed
\* one was left unvisited.
C8_SweepVisitsTheRest ==
    /\ scan.pc = "aborted" => Len(scan.todo) <= 1
    /\ asweep.pc = "aborted" => Len(asweep.todo) <= 1

\* C9: a 0-byte object carries no flag, no record was made of a 0-byte
\* object, and no object under processed/ came from a 0-byte object.
C9_EmptyNeverProcessed ==
    /\ \A n \in AllPaths :
          Exists(store, n) =>
            /\ store[n].body.size = 0 =>
                  store[n].meta["tagged"] # "true" /\ store[n].meta["processed"] # "true"
            /\ store[n].from.size # 0 \/ store[n].from.name = n
    /\ \A i \in 1..Len(records) : records[i].of.size # 0

\* analyze_image ran on a 0-byte object of a known owner and gave up.
C9_Witness ==
    \E p \in Procs :
        /\ proc[p].pc = "done"
        /\ proc[p].fault = "service"
        /\ Exists(store, proc[p].path)
        /\ store[proc[p].path].body.size = 0
        /\ Truthy(store[proc[p].path].meta["uid"])

\* C10: an object whose content type is no image type carries no flag, no
\* record was made of such an object, and none was relocated.
C10_NonImageNeverProcessed ==
    /\ \A n \in AllPaths :
          Exists(store, n) =>
            /\ ~IsImageType(store[n].ctype) =>
                  store[n].meta["tagged"] # "true" /\ store[n].meta["processed"] # "true"
            /\ store[n].from.name # n => IsImageType(store[n].ctype)
    /\ \A i \in 1..Len(records) : IsImageType(records[i].of.ctype)

\* A decodable, non-empty image of a known owner, outside processed/.
Repairable(n) ==
    /\ Exists(store, n)
    /\ IsImageType(store[n].ctype)
    /\ store[n].body.size # 0
    /\ Decodable(store[n].body)
    /\ Truthy(store[n].meta["uid"])

\* The object, or its copy under processed/, is tagged and has a record.
Repaired(n) ==
    \E m \in {n, DestinationPath(n)} :
        /\ Exists(store, m)
        /\ store[m].meta["tagged"] = "true"
        /\ RecordsOf(m) # {}

\* C7: with the notifications dropped, the sweeps alone bring every
\* non-empty image of a known owner to a tagged object with a record.
C7_SweepsRepair ==
    \A n \in UploadPaths : Repairable(n) ~> Repaired(n)

\* C11: the relocation stage never re-triggers itself. Every object it has
\* written lies in the processed namespace, and an invocation for an object
\* of the processed namespace ends before process_image is called, so it
\* rewrites no bytes and changes no metadata.
C11_NoSelfTrigger ==
    /\ \A n \in AllPaths :
          Exists(store, n) /\ store[n].from.name # n => StartsWithDir(n, "processed")
    /\ pimg.pc # "idle" /\ StartsWithDir(pimg.name, "processed") =>
          /\ pimg.pc = "done"
          /\ pimg.result = "skipped"
          /\ ~pimg.tmp

\* An invocation was delivered the notification of a relocated object.
C11_Witness ==
    /\ pimg.pc = "done"
    /\ pimg.result = "skipped"
    /\ pimg.name = ProcessedA
    /\ Exists(store, ProcessedA)
    /\ store[ProcessedA].from.name = UploadsA
    /\ FinalizeEvent(ProcessedA, store[ProcessedA]) \in events

\* The invocation followed has fetched the bytes and is past Image.open.
Fetched ==
    /\ pimg.pc \in {"upload", "cleanup", "done"}
    /\ pimg.result \notin {"skipped", "notfound"}

\* C12: when the fetched bytes are not a decodable image, process_image
\* returns no destination: it never reaches the upload, no object at the
\* processed path comes from this artifact, and the original keeps its
\* bytes and its metadata.
C12_UndecodableLeftAlone ==
    Fetched /\ ~pimg.bytes.valid =>
        /\ pimg.result = "undecodable"
        /\ pimg.pc \in {"cleanup", "done"}
        /\ Exists(store, DestinationPath(pimg.name)) =>
              store[DestinationPath(pimg.name)].from.name # pimg.name
        /\ Exists(store, pimg.name) =>
              store[pimg.name] =
                  Blob(pimg.ctype, pimg.bytes, NewMetadata(pimg.uid, pimg.public),
                       Origin(pimg.name, pimg.bytes))

\* process_image has returned None for a corrupt file that is still there.
C12_Witness ==
    /\ pimg.pc = "done"
    /\ pimg.result = "undecodable"
    /\ pimg.bytes = CorruptBody
    /\ Exists(store, pimg.name)
    /\ ~Exists(store, DestinationPath(pimg.name))

\* C13: analyze_image writes the public cross-reference exactly when the
\* artifact is publicly visible: a completed analysis that wrote its record
\* wrote one cross-reference when 'public' is 'true' and none otherwise, and
\* every entry of the public index belongs to a record marked 'true'.
C13_PublicRefIffPublic ==
    /\ \A p \in Procs :
          Completed(p) /\ proc[p].wrote = 1 =>
              proc[p].refs = (IF proc[p].cur["public"] = "true" THEN 1 ELSE 0)
    /\ \A i \in pubrefs : records[i].public = "true"

\* C14: when label detection or the categorization fails, the analysis is
\* abandoned: the invocation has ended and has written no record and no
\* public cross-reference and has not set the flags.
C14_ServiceFailureAbandons ==
    \A p \in Procs :
        proc[p].fault = "service" =>
            /\ proc[p].pc = "done"
            /\ proc[p].wrote = 0
            /\ proc[p].refs = 0
            /\ ~proc[p].patched

\* A service failed on an artifact that passed the safeguards; it has no
\* record, is not flagged and would pass the safeguards again.
C14_Witness ==
    \E p \in Procs :
        /\ proc[p].fault = "service"
        /\ Passed(p)
        /\ Exists(store, proc[p].path)
        /\ RecordsOf(proc[p].path) = {}
        /\ pubrefs = {}
        /\ ShouldAnalyze(store[proc[p].path].meta) = "go"

\* shouldRelocate as the contract words it: false in the processed
\* namespace, for size zero, for a content kind that is no image kind, and
\* for metadata processed = 'true'; true otherwise.
ContractShouldRelocate(d) ==
    ~ \/ StartsWithDir(d.name, "processed")
      \/ d.size = 0
      \/ ~IsImageType(d.ctype)
      \/ d.meta["processed"] = "true"

\* C15: the relocation eligibility decision, reactive and scanning, skips
\* exactly in the processed namespace, for size zero, for a non-image kind
\* and for metadata processed = 'true', and proceeds for every other
\* artifact, a path with 'processed/' inside a longer segment included.
C15_RelocationEligibility ==
    decision.asked =>
        /\ decision.ans.reactive = ContractShouldRelocate(decision)
        /\ decision.ans.scan = ContractShouldRelocate(decision)

\* C16: for every artifact state the scanner decides as the reactive path
\* of the same stage does: scan_unprocessed_images as remove_exif_on_upload,
\* analyze_untagged_images as analyze_processed_image.
C16_ScannerAgreesWithReactive ==
    decision.asked =>
        /\ decision.ans.scan = decision.ans.reactive
        /\ decision.ans.sweep = decision.ans.trigger

\* C17 as stated: an invocation cut off at any step has committed no
\* durable write: no record, no public cross-reference, no flag.
C17_CutOffWritesNothing ==
    \A p \in Procs :
        proc[p].fault = "crash" =>
            proc[p].wrote = 0 /\ proc[p].refs = 0 /\ ~proc[p].patched

\* C17: an analysis cut off before its metadata patch has not set the
\* flags, so it leaves the artifact eligible for a retry; what it wrote to the
\* result store before the cut (at most one record, and a public
\* cross-reference only after the record) stays.
C17_CutOffLeavesNoFlag ==
    \A p \in Procs :
        proc[p].fault = "crash" =>
            /\ ~proc[p].patched
            /\ proc[p].wrote <= 1
            /\ proc[p].refs <= proc[p].wrote

\* An analysis was cut off after its record was written: the record is
\* there, and the artifact passes the safeguards again.
C17_Witness ==
    \E p \in Procs :
        /\ proc[p].fault = "crash"
        /\ proc[p].wrote = 1
        /\ RecordsOf(proc[p].path) # {}
        /\ Exists(store, proc[p].path)
        /\ ShouldAnalyze(store[proc[p].path].meta) = "go"

\* C18: after a successful relocation of an inbox artifact with metadata
\* uid = u and public = p, by the reactive or the scanning function, the
\* object at processed/<base name> has the content kind of the source and
\* carries uid = u and public = p, and the inbox artifact is as it was:
\* same content kind, bytes and metadata, unless it was deleted from outside.
C18_RelocationCarriesMetadata ==
    pimg.result = "uploaded" =>
        /\ Exists(store, DestinationPath(pimg.name)) =>
              LET d == store[DestinationPath(pimg.name)]
              IN  /\ d.ctype = pimg.ctype
                  /\ d.meta["uid"] = pimg.uid
                  /\ d.meta["public"] = pimg.public
                  /\ d.from.name = pimg.name
                  /\ ~d.body.exif
        /\ Exists(store, pimg.name) =>
              store[pimg.name] =
                  Blob(pimg.ctype, pimg.bytes, NewMetadata(pimg.uid, pimg.public),
                       Origin(pimg.name, pimg.bytes))

\* An artifact of owner u1, marked private, has been relocated; source and
\* destination are both there.
C18_Witness ==
    /\ pimg.pc = "done"
    /\ pimg.result = "uploaded"
    /\ pimg.uid = "u1"
    /\ pimg.public = "false"
    /\ Exists(store, pimg.name)
    /\ Exists(store, DestinationPath(pimg.name))
    /\ store[DestinationPath(pimg.name)].meta["uid"] = "u1"

\* C19: the temporary working copy made by process_image no longer exists
\* when process_image has exited, whichever way (upload done, download
\* error, decode error, upload error), and none is left over from earlier
\* invocations.
C19_TempFileReleased ==
    pimg.pc = "done" => ~pimg.tmp /\ pimg.left = 0

\* C20: the processed path depends on the base name only. Two inbox
\* artifacts with the same base name have one destination, and after a
\* successful relocation the object there has the bytes, content kind and
\* owner/visibility metadata of that relocation, whatever another source
\* had put there before: the later relocation wins, nothing detects it.
C20_LaterRelocationWins ==
    /\ \A n, m \in UploadPaths :
          Basename(n) = Basename(m) => DestinationPath(n) = DestinationPath(m)
    /\ pimg.result = "uploaded" /\ Exists(store, DestinationPath(pimg.name)) =>
          store[DestinationPath(pimg.name)] =
              Blob(pimg.ctype, Sanitize(pimg.bytes),
                   NewMetadata(pimg.uid, pimg.public),
                   Origin(pimg.name, pimg.bytes))

\* uploads/a.jpg was relocated, then photos/a.jpg with other metadata: the
\* notification of the first relocation is the only trace of it.
C20_Witness ==
    /\ pimg.pc = "done"
    /\ pimg.result = "uploaded"
    /\ pimg.name = PhotosA
    /\ Exists(store, UploadsA)
    /\ Exists(store, PhotosA)
    /\ Exists(store, ProcessedA)
    /\ store[ProcessedA].from.name = PhotosA
    /\ \E e \in events :
          /\ e.name = ProcessedA
          /\ e.uid # store[ProcessedA].meta["uid"]

\* C21: in watch mode, over the polling rounds, each image name under the
\* watched prefix is handed to the analysis at most once in a run, an image
\* present at startup never, and nothing outside the prefix; a name is in
\* the set of seen names when its analysis runs, so a name whose analysis
\* failed stays there and is not handed over again.
C21_WatcherSubmitsOnce ==
    watch.pc # "off" =>
        /\ \A n \in WatchPaths :
              /\ watch.subm[n] <= 1
              /\ watch.subm[n] = 1 => StartsWithDir(n, WatchPrefix)
        /\ \A n \in watch.startup : watch.subm[n] = 0
        /\ watch.pc = "call" => watch.cur \in watch.seen
        /\ \A n \in watch.failed : n \in watch.seen /\ watch.subm[n] = 1

\* After an image was there at startup, another image was found in the
\* first round and its analysis failed; nothing was deleted, the second
\* round is over and the image is still there, handed over once.
C21_Witness ==
    /\ watch.pc = "sleep"
    /\ watch.round = 2
    /\ watch.startup # {}
    /\ budget.vanish = MaxVanish
    /\ \E n \in watch.failed :
          /\ watch.at[n] = 1
          /\ watch.subm[n] = 1
          /\ Exists(store, n)
          /\ IsImageType(store[n].ctype)

====
